---- MODULE Spec2Model ----
(***************************************************************************)
(* Executive Summary Analyzer (src/exec-summary-analyzer.py).              *)
(*                                                                         *)
(* The model covers LLMAnalyzer.extract_information with its helper        *)
(* _merge_extractions, and LLMAnalyzer._parse_report_sections.             *)
(*                                                                         *)
(* Text is a sequence of one-character strings, so that str.lower(),       *)
(* the `in` substring test, str.split and str.strip are computed and not   *)
(* assumed.  A confidence is an integer number of tenths (9 is 0.9).       *)
(***************************************************************************)
EXTENDS Integers, Sequences, FiniteSets, TLC

VARIABLES chunks, idx, all_extractions, pc, merged_info, info,
          report_text, lines, line_no, current_section, sections, ppc,
          llm_calls, report,
          active, req, uploads, reports, clock,
          markdown, readback

vars == <<chunks, idx, all_extractions, pc, merged_info, info,
          report_text, lines, line_no, current_section, sections, ppc,
          llm_calls, report,
          active, req, uploads, reports, clock,
          markdown, readback>>

extractVars == <<chunks, idx, all_extractions, pc, merged_info, info>>
parseVars == <<report_text, lines, line_no, current_section, sections,
               ppc>>
\* llm_calls: the calls of self.llm.invoke so far, each with its outcome
\* report: the Report that generate_report returned
reportVars == <<llm_calls, report>>
\* active: the requests of /api/analyze in this run; req: their local
\* variables; uploads, reports: the files of the two folders, each with
\* the request whose data it holds; clock: datetime.now(), in seconds
requestVars == <<active, req, uploads, reports, clock>>
\* markdown: the rows of the table that generate_markdown wrote;
\* readback: what a reader of that table finds in them
renderVars == <<markdown, readback>>

(***************************************************************************)
(* Bounds of the model.                                                    *)
(***************************************************************************)
\* the largest number of chunks the text splitter returns for a document
DocChunks == 4
\* the largest number of lines joined by "\n" into a report text
MaxLines == 4
\* the seconds that pass while the requests run
MaxClock == 1

(***************************************************************************)
(* Python strings.                                                         *)
(***************************************************************************)
UpperToLower ==
  [A |-> "a", B |-> "b", C |-> "c", D |-> "d", E |-> "e", F |-> "f",
   G |-> "g", H |-> "h", I |-> "i", J |-> "j", K |-> "k", L |-> "l",
   M |-> "m", N |-> "n", O |-> "o", P |-> "p", Q |-> "q", R |-> "r",
   S |-> "s", T |-> "t", U |-> "u", V |-> "v", W |-> "w", X |-> "x",
   Y |-> "y", Z |-> "z"]

\* str.lower()
Lower(s) ==
  [i \in 1..Len(s) |->
     IF s[i] \in DOMAIN UpperToLower THEN UpperToLower[s[i]] ELSE s[i]]

\* `sub in s`
Contains(sub, s) ==
  \E i \in 0..(Len(s) - Len(sub)) : SubSeq(s, i + 1, i + Len(sub)) = sub

\* the characters str.strip() removes
Whitespace == {" ", "\t", "\n", "\r"}

\* str.strip()
Strip(s) ==
  LET keep == {i \in 1..Len(s) : s[i] \notin Whitespace}
  IN  IF keep = {} THEN <<>>
      ELSE LET lo == CHOOSE i \in keep : \A j \in keep : i <= j
               hi == CHOOSE i \in keep : \A j \in keep : j <= i
           IN  SubSeq(s, lo, hi)

\* str.split('\n'): the pieces between consecutive newlines, n newlines
\* giving n + 1 pieces
Split(s) ==
  LET nl == {i \in 1..Len(s) : s[i] = "\n"}
      cut(k) == IF k = 0 THEN 0
                ELSE IF k = Cardinality(nl) + 1 THEN Len(s) + 1
                ELSE CHOOSE i \in nl : Cardinality({j \in nl : j < i}) = k - 1
  IN  [k \in 1..(Cardinality(nl) + 1) |->
         SubSeq(s, cut(k - 1) + 1, cut(k) - 1)]

(***************************************************************************)
(* JSON values as json.loads returns them.                                 *)
(***************************************************************************)
None == [t |-> "null", s |-> <<>>, n |-> 0]
Str(chars) == [t |-> "str", s |-> chars, n |-> 0]
Num(k) == [t |-> "num", s |-> <<>>, n |-> k]
\* a JSON array of k elements
List(k) == [t |-> "list", s |-> <<>>, n |-> k]

\* Python truth value of a JSON value
Truthy(v) ==
  CASE v.t = "str" -> v.s # <<>>
    [] v.t = "null" -> FALSE
    [] OTHER -> v.n # 0

\* dict.get(key, default)
Get(d, key, default) == IF key \in DOMAIN d THEN d[key] ELSE default

\* the empty dict {}
EmptyDict == [k \in {} |-> None]

FieldList ==
  <<"company_name", "technology_type", "need_addressed", "market_size",
    "market_calculation_method", "product_development_stage",
    "current_sales", "exit_value_range", "years_to_exit",
    "investment_needed", "missing_skills">>

Fields == {FieldList[i] : i \in 1..Len(FieldList)}

Sentinel ==
  <<"I","n","f","o","r","m","a","t","i","o","n"," ","n","o","t"," ",
    "p","r","o","v","i","d","e","d"," ","i","n"," ","t","h","e"," ",
    "d","o","c","u","m","e","n","t",".">>

NotProvidedKey == <<"n","o","t"," ","p","r","o","v","i","d","e","d">>

\* best_confidence = 0
InitialBest == 0
\* .get(field, 0.5), in tenths
DefaultConfidence == 5

(***************************************************************************)
(* _merge_extractions.                                                     *)
(*                                                                         *)
(* A dict is [t |-> "dict", m |-> function from keys to JSON values]; an   *)
(* extraction result keeps the key 'confidence_scores' of its dict apart   *)
(* in cs ([t |-> "absent"] when the dict has no such key).                 *)
(***************************************************************************)
Absent == [t |-> "absent"]
Dict(m) == [t |-> "dict", m |-> m]
Result(m, cs) == [t |-> "dict", m |-> m, cs |-> cs]

\* a later candidate of equal confidence replaces the earlier one
ExceedsOrEquals(confidence, best) == confidence >= best

\* the candidate is compared with the initial best, not the running one
ExceedsInitial(confidence, best) == confidence > InitialBest

\* `confidence > best_confidence` (line 219)
Exceeds(confidence, best) == confidence > best

\* the 'not provided' test without lower-casing the value
RejectedCaseSensitive(chars) == Contains(NotProvidedKey, chars)

\* `"not provided" in value.lower()` (line 219)
Rejected(chars) == Contains(NotProvidedKey, Lower(chars))

\* a field without a confidence entry gets confidence 0
ConfidenceForZero(scores, field) == Get(scores.m, field, Num(0))

\* `.get(field, 0.5)` (line 217)
ConfidenceFor(scores, field) == Get(scores.m, field, Num(DefaultConfidence))

\* the body of the inner loop for one extraction: lines 216-221
\* acc = [value, confidence, exc]
ScanOne(extraction, field, acc) ==
  IF acc.exc # "none" THEN acc
  ELSE IF extraction.t # "dict" THEN [acc EXCEPT !.exc = "AttributeError"]
  ELSE
    LET value == Get(extraction.m, field, None)
        scores == IF extraction.cs.t = "absent" THEN Dict(EmptyDict)
                  ELSE extraction.cs
    IN  IF scores.t # "dict" THEN [acc EXCEPT !.exc = "AttributeError"]
        ELSE
          LET confidence == ConfidenceFor(scores, field)
          IN  IF ~Truthy(value) THEN acc
              ELSE IF value.t # "str"
                THEN [acc EXCEPT !.exc = "AttributeError"]
              ELSE IF Rejected(value.s) THEN acc
              ELSE IF confidence.t # "num"
                THEN [acc EXCEPT !.exc = "TypeError"]
              ELSE IF Exceeds(confidence.n, acc.confidence)
                THEN [value |-> value, confidence |-> confidence.n,
                      exc |-> "none"]
              ELSE acc

RECURSIVE Scan(_, _, _, _)
\* for extraction in extractions: lines 215-221
Scan(extractions, i, field, acc) ==
  IF i > Len(extractions) THEN acc
  ELSE Scan(extractions, i + 1, field, ScanOne(extractions[i], field, acc))

\* lines 212-221 for one field
BestOf(extractions, field) ==
  Scan(extractions, 1, field,
       [value |-> None, confidence |-> InitialBest, exc |-> "none"])

\* the first field, in the order of the list `fields`, whose scan raises
FirstRaising(extractions) ==
  LET bad == {i \in 1..Len(FieldList) :
                BestOf(extractions, FieldList[i]).exc # "none"}
  IN  IF bad = {} THEN 0 ELSE CHOOSE i \in bad : \A j \in bad : i <= j

\* _merge_extractions: [exc, val]
MergeExtractions(extractions) ==
  IF Len(extractions) = 0
    THEN [exc |-> "none", val |-> Result(EmptyDict, Absent)]
  ELSE IF Len(extractions) = 1
    THEN [exc |-> "none", val |-> extractions[1]]
  ELSE IF FirstRaising(extractions) # 0
    THEN [exc |-> BestOf(extractions,
                         FieldList[FirstRaising(extractions)]).exc,
          val |-> None]
  ELSE
    [exc |-> "none",
     val |-> Result(
       [f \in Fields |->
          LET best == BestOf(extractions, f)
          IN  IF Truthy(best.value) THEN best.value ELSE Str(Sentinel)],
       Dict([f \in Fields |-> Num(BestOf(extractions, f).confidence)]))]

\* ExtractedInformation(...): lines 179-192 with __post_init__
\* (the timestamp is left out)
BuildInfo(merged) ==
  IF merged.t # "dict" THEN [exc |-> "AttributeError"]
  ELSE [exc |-> "none",
        fields |-> [f \in Fields |-> Get(merged.m, f, None)],
        confidence_scores |->
          IF merged.cs.t = "absent" \/ merged.cs.t = "null"
            THEN Dict(EmptyDict) ELSE merged.cs]

(***************************************************************************)
(* What the LLM answers for a chunk.                                       *)
(***************************************************************************)
Acme == <<"A","c","m","e">>
Beta == <<"B","e","t","a">>
ShoutedNotProvided == <<"N","O","T"," ","P","r","o","v","i","d","e","d">>

\* one field of an answer: its value and its confidence, either one
\* possibly left out
Entry(v, c) == [v |-> v, c |-> c]

\* the answers for company_name
CompanyEntries ==
  {Entry(Absent, Absent), Entry(Str(<<>>), Num(9)),
   Entry(Str(ShoutedNotProvided), Num(9)), Entry(Str(Sentinel), Num(9))}
  \cup {Entry(Str(v), c) : v \in {Acme, Beta},
                           c \in {Absent, Num(0), Num(3), Num(9)}}

\* the answers shared by the ten other fields
OtherEntries == {Entry(Absent, Absent), Entry(Str(Beta), Num(3))}

EntryOf(f, e1, e2) == IF f = "company_name" THEN e1 ELSE e2

\* the JSON object with entry e1 for company_name and e2 for the others;
\* it has no 'confidence_scores' key when no field has a confidence
MakeResult(e1, e2) ==
  Result([f \in {g \in Fields : EntryOf(g, e1, e2).v.t # "absent"} |->
            EntryOf(f, e1, e2).v],
         IF e1.c.t = "absent" /\ e2.c.t = "absent" THEN Absent
         ELSE Dict([f \in {g \in Fields : EntryOf(g, e1, e2).c.t # "absent"}
                      |-> EntryOf(f, e1, e2).c]))

\* answers that follow the prompt: string values, numeric confidences
TypedResponses ==
  {MakeResult(e1, e2) : e1 \in CompanyEntries, e2 \in OtherEntries}

(***************************************************************************)
(* extract_information.                                                    *)
(***************************************************************************)
\* every chunk of the document is processed
AllChunks == DocChunks

\* chunks[:3] (line 162)
MaxChunksProcessed == 3

Min(a, b) == IF a < b THEN a ELSE b

Pending == [exc |-> "pending"]

ParseIdle ==
  /\ report_text = <<>>
  /\ lines = <<>>
  /\ line_no = 0
  /\ current_section = "None"
  /\ sections = <<>>
  /\ ppc = "idle"

\* the state at line 160, for a document the splitter cut into `chunks`
InitExtract ==
  /\ chunks \in 0..DocChunks
  /\ idx = 0
  /\ all_extractions = <<>>
  /\ pc = "extract"
  /\ merged_info = Pending
  /\ info = Pending

\* a call of self.llm.invoke for a chunk, as llm_calls records it
ExtractCall(chunk, outcome, answer) ==
  [kind |-> "extract", chunk |-> chunk, outcome |-> outcome,
   answer |-> answer]

\* the except block leaves an empty result for the chunk
OnChunkErrorAppendsEmpty(extractions) ==
  Append(extractions, Result(EmptyDict, Absent))

\* all_extractions after the except block (lines 172-174)
OnChunkError(extractions) == extractions

\* one iteration of the loop whose try block raises: llm.invoke fails or
\* json.loads rejects the answer (lines 168-174)
ChunkDropped ==
  /\ pc = "extract"
  /\ idx < Min(chunks, MaxChunksProcessed)
  /\ \E cause \in {"raised", "not_json"} :
       llm_calls' = Append(llm_calls, ExtractCall(idx + 1, cause, None))
  /\ all_extractions' = OnChunkError(all_extractions)
  /\ idx' = idx + 1
  /\ UNCHANGED <<chunks, pc, merged_info, info, report>>
  /\ UNCHANGED parseVars
  /\ UNCHANGED requestVars
  /\ UNCHANGED renderVars

\* one iteration of the loop whose answer parses as JSON (lines 168-171)
ChunkParsed(responses) ==
  /\ pc = "extract"
  /\ idx < Min(chunks, MaxChunksProcessed)
  /\ \E result \in responses :
       /\ all_extractions' = Append(all_extractions, result)
       /\ llm_calls' = Append(llm_calls, ExtractCall(idx + 1, "json", result))
  /\ idx' = idx + 1
  /\ UNCHANGED <<chunks, pc, merged_info, info, report>>
  /\ UNCHANGED parseVars
  /\ UNCHANGED requestVars
  /\ UNCHANGED renderVars

\* lines 176-192: merge, then build the ExtractedInformation
MergeAndBuild ==
  /\ pc = "extract"
  /\ idx = Min(chunks, MaxChunksProcessed)
  /\ merged_info' = MergeExtractions(all_extractions)
  /\ info' = IF merged_info'.exc # "none" THEN [exc |-> merged_info'.exc]
             ELSE BuildInfo(merged_info'.val)
  /\ pc' = IF info'.exc = "none" THEN "done" ELSE "raised"
  /\ UNCHANGED <<chunks, idx, all_extractions>>
  /\ UNCHANGED parseVars
  /\ UNCHANGED reportVars
  /\ UNCHANGED requestVars
  /\ UNCHANGED renderVars

ReportIdle ==
  /\ llm_calls = <<>>
  /\ report = Pending

Reqs == {1, 2}

NoFiles == [p \in {} |-> 0]

\* the local variables of analyze_document before line 575
NewRequest ==
  [pos |-> "new", filename |-> "", timestamp |-> 0, saved |-> FALSE,
   text_from |-> 0, company |-> "", report_call |-> "none",
   wrote |-> {}, status |-> 0, error |-> "", has_report |-> FALSE]

RequestIdle ==
  /\ active = {}
  /\ req = [r \in Reqs |-> NewRequest]
  /\ uploads = NoFiles
  /\ reports = NoFiles
  /\ clock = 0

RenderIdle ==
  /\ markdown = <<>>
  /\ readback = <<>>

Init ==
  InitExtract /\ ParseIdle /\ ReportIdle /\ RequestIdle /\ RenderIdle

Next == ChunkDropped \/ ChunkParsed(TypedResponses) \/ MergeAndBuild

Spec == Init /\ [][Next]_vars

(***************************************************************************)
(* Answers that parse as JSON without following the prompt.                *)
(***************************************************************************)
OnlyCompany(v) == [f \in {"company_name"} |-> v]

JsonResponses ==
  { \* [1]
    List(1),
    \* "Acme"
    Str(Acme),
    \* {"company_name": "Acme", "confidence_scores": {"company_name": 0.9}}
    MakeResult(Entry(Str(Acme), Num(9)), Entry(Absent, Absent)),
    \* {"company_name": 7}
    Result(OnlyCompany(Num(7)), Absent),
    \* {"company_name": ["Acme"]}
    Result(OnlyCompany(List(1)), Absent),
    \* {"company_name": "Acme", "confidence_scores": 0.9}
    Result(OnlyCompany(Str(Acme)), Num(9)),
    \* {"company_name": "Acme", "confidence_scores": null}
    Result(OnlyCompany(Str(Acme)), None),
    \* {"company_name": "Acme", "confidence_scores": {"company_name": "high"}}
    Result(OnlyCompany(Str(Acme)), Dict(OnlyCompany(Str(<<"h","i","g","h">>)))) }

NextJson == ChunkDropped \/ ChunkParsed(JsonResponses) \/ MergeAndBuild

SpecJson == Init /\ [][NextJson]_vars

(***************************************************************************)
(* Answers that follow the prompt but for the range of the confidences:    *)
(* a confidence below zero is a number json.loads accepts like any other.  *)
(***************************************************************************)
\* the answers for company_name
SignedCompanyEntries ==
  {Entry(Str(ShoutedNotProvided), Num(9))}
  \cup {Entry(Str(v), c) :
          v \in {Acme, Beta},
          c \in {Absent, Num(-1), Num(0), Num(3), Num(9)}}

\* the answer shared by the ten other fields
SignedOtherEntries == {Entry(Str(Beta), Num(-1))}

SignedResponses ==
  {MakeResult(e1, e2) :
     e1 \in SignedCompanyEntries, e2 \in SignedOtherEntries}

NextSigned == ChunkDropped \/ ChunkParsed(SignedResponses) \/ MergeAndBuild

SpecSigned == Init /\ [][NextSigned]_vars

(***************************************************************************)
(* _parse_report_sections.                                                 *)
(***************************************************************************)
KeyNature ==
  <<"n","a","t","u","r","e"," ","a","n","d"," ","s","t","a","t","e">>
KeyMarket == <<"m","a","r","k","e","t"," ","n","e","e","d">>
KeyRoi == <<"r","o","i">>
KeyManagement == <<"m","a","n","a","g","e","m","e","n","t">>

\* section_mapping, in the order a dict iterates: by insertion
SectionMapping ==
  << [key |-> KeyNature, section |-> "nature_and_state"],
     [key |-> KeyMarket, section |-> "market_need_and_size"],
     [key |-> KeyRoi, section |-> "roi_elements"],
     [key |-> KeyManagement, section |-> "management_team_strength"] >>

SectionKeys == {SectionMapping[k].section : k \in 1..Len(SectionMapping)}

\* the positions in section_mapping whose key is in the line
Hits(lower_line) ==
  {k \in 1..Len(SectionMapping) :
     Contains(SectionMapping[k].key, lower_line)}

\* the last key of section_mapping found in the line
LastMatch(lower_line) ==
  IF Hits(lower_line) = {} THEN 0
  ELSE CHOOSE k \in Hits(lower_line) : \A j \in Hits(lower_line) : j <= k

\* the loop of lines 307-310: the first key found in the line, 0 for none
FirstMatch(lower_line) ==
  IF Hits(lower_line) = {} THEN 0
  ELSE CHOOSE k \in Hits(lower_line) : \A j \in Hits(lower_line) : k <= j

\* a header is looked for only while no section is open
NextSectionKeepsOpen(current, lower_line) ==
  IF current # "None" THEN current
  ELSE IF FirstMatch(lower_line) # 0
    THEN SectionMapping[FirstMatch(lower_line)].section
  ELSE current

\* current_section after lines 307-310
NextSection(current, lower_line) ==
  IF FirstMatch(lower_line) # 0
    THEN SectionMapping[FirstMatch(lower_line)].section
  ELSE current

\* any(key in lower_line for key in section_mapping)
AnyKey(lower_line) ==
  \E k \in 1..Len(SectionMapping) :
    Contains(SectionMapping[k].key, lower_line)

\* the condition of line 313 without the test of line.strip()
AppendsBlank(section, line, lower_line) ==
  section # "None" /\ ~AnyKey(lower_line)

\* the condition of line 313
Appends(section, line, lower_line) ==
  section # "None" /\ Strip(line) # <<>> /\ ~AnyKey(lower_line)

\* the lines the LLM writes into a report
LineEmpty == <<>>
LineBlank == <<" "," ">>
LineNature ==
  <<"N","a","t","u","r","e"," ","a","n","d"," ","S","t","a","t","e">>
LineGrowing == <<"G","r","o","w","i","n","g"," ","f","a","s","t">>
LineRoi == <<"R","O","I">>
LineHigh == <<"H","i","g","h"," ","r","e","t","u","r","n">>
LinePadded == <<" ","T","e","a","m"," ","i","s"," ","s","o","l","i","d"," ">>
LineQuirk ==
  <<"W","e"," ","n","e","e","d"," ","s","t","r","o","n","g"," ",
    "m","a","n","a","g","e","m","e","n","t"," ","g","o","i","n","g"," ",
    "f","o","r","w","a","r","d">>
LineMulti ==
  <<"M","a","n","a","g","e","m","e","n","t"," ","o","f"," ",
    "m","a","r","k","e","t"," ","n","e","e","d">>

LineCatalogue ==
  {LineEmpty, LineBlank, LineRoi, LineHigh, LinePadded, LineQuirk,
   LineMulti}

RECURSIVE Join(_)
\* '\n'.join(ls)
Join(ls) ==
  IF Len(ls) = 0 THEN <<>>
  ELSE IF Len(ls) = 1 THEN ls[1]
  ELSE ls[1] \o <<"\n">> \o Join(Tail(ls))

\* "Nature and State\nGrowing fast\n\nROI\nHigh return\n"
ExampleText ==
  Join(<<LineNature, LineGrowing, LineEmpty, LineRoi, LineHigh, LineEmpty>>)

\* the report texts: up to MaxLines catalogue lines, and the example
ReportTexts ==
  {Join(ls) : ls \in UNION {[1..k -> LineCatalogue] : k \in 1..MaxLines}}
  \cup {ExampleText}

ExtractIdle ==
  /\ chunks = 0
  /\ idx = 0
  /\ all_extractions = <<>>
  /\ pc = "idle"
  /\ merged_info = Pending
  /\ info = Pending

\* _parse_report_sections is called with the text the LLM returned
InitParse ==
  /\ report_text \in ReportTexts
  /\ lines = <<>>
  /\ line_no = 0
  /\ current_section = "None"
  /\ sections = <<>>
  /\ ppc = "called"

\* the first section is open before any header is read
InitialSectionFirst == SectionMapping[1].section

\* current_section = None (line 293)
InitialSection == "None"

\* lines 285-301
ParseStart ==
  /\ ppc = "called"
  /\ sections' = [s \in SectionKeys |-> <<>>]
  /\ current_section' = InitialSection
  /\ lines' = Split(report_text)
  /\ line_no' = 1
  /\ ppc' = "loop"
  /\ UNCHANGED report_text
  /\ UNCHANGED extractVars
  /\ UNCHANGED reportVars
  /\ UNCHANGED requestVars
  /\ UNCHANGED renderVars

\* one iteration of `for line in lines`: lines 303-314
ParseLine ==
  /\ ppc = "loop"
  /\ line_no <= Len(lines)
  /\ LET line == lines[line_no]
         lower_line == Lower(line)
         section == NextSection(current_section, lower_line)
     IN  /\ current_section' = section
         /\ sections' =
              IF Appends(section, line, lower_line)
                THEN [sections EXCEPT ![section] = @ \o line \o <<"\n">>]
                ELSE sections
  /\ line_no' = line_no + 1
  /\ UNCHANGED <<report_text, lines, ppc>>
  /\ UNCHANGED extractVars
  /\ UNCHANGED reportVars
  /\ UNCHANGED requestVars
  /\ UNCHANGED renderVars

\* lines 316-320
ParseReturn ==
  /\ ppc = "loop"
  /\ line_no > Len(lines)
  /\ sections' = [s \in SectionKeys |-> Strip(sections[s])]
  /\ ppc' = "returned"
  /\ UNCHANGED <<report_text, lines, line_no, current_section>>
  /\ UNCHANGED extractVars
  /\ UNCHANGED reportVars
  /\ UNCHANGED requestVars
  /\ UNCHANGED renderVars

InitParser ==
  ExtractIdle /\ InitParse /\ ReportIdle /\ RequestIdle /\ RenderIdle

NextParse == ParseStart \/ ParseLine \/ ParseReturn

SpecParse == InitParser /\ [][NextParse]_vars

(***************************************************************************)
(* generate_report, after extract_information: the analysis of lines       *)
(* 605-607.                                                                *)
(***************************************************************************)
\* the call of self.llm.invoke in generate_report, as llm_calls records it
ReportCall(outcome) ==
  [kind |-> "report", chunk |-> 0, outcome |-> outcome, answer |-> None]

\* the report texts the LLM returns in an analysis
AnalysisTexts == {ExampleText, Join(<<LineHigh, LineQuirk, LinePadded>>)}

\* line 265 raises; the except block logs and raises again (279-281)
ReportCallRaises ==
  /\ pc = "done"
  /\ llm_calls' = Append(llm_calls, ReportCall("raised"))
  /\ pc' = "report_raised"
  /\ UNCHANGED <<chunks, idx, all_extractions, merged_info, info, report>>
  /\ UNCHANGED parseVars
  /\ UNCHANGED requestVars
  /\ UNCHANGED renderVars

\* line 265 returns and line 266 calls _parse_report_sections
ReportCallReturns ==
  /\ pc = "done"
  /\ llm_calls' = Append(llm_calls, ReportCall("returned"))
  /\ pc' = "parsing"
  /\ report_text' \in AnalysisTexts
  /\ ppc' = "called"
  /\ UNCHANGED <<chunks, idx, all_extractions, merged_info, info, report>>
  /\ UNCHANGED <<lines, line_no, current_section, sections>>
  /\ UNCHANGED requestVars
  /\ UNCHANGED renderVars

\* Report(...): lines 268-278
BuildReport ==
  /\ pc = "parsing"
  /\ ppc = "returned"
  /\ report' =
       [exc |-> "none",
        nature_and_state |-> sections["nature_and_state"],
        market_need_and_size |-> sections["market_need_and_size"],
        roi_elements |-> sections["roi_elements"],
        management_team_strength |-> sections["management_team_strength"],
        metadata |-> [company_name |-> info.fields["company_name"],
                      confidence_scores |-> info.confidence_scores]]
  /\ pc' = "reported"
  /\ UNCHANGED <<chunks, idx, all_extractions, merged_info, info, llm_calls>>
  /\ UNCHANGED parseVars
  /\ UNCHANGED requestVars
  /\ UNCHANGED renderVars

NextAnalysis ==
  \/ ChunkDropped
  \/ ChunkParsed(JsonResponses)
  \/ MergeAndBuild
  \/ ReportCallRaises
  \/ ReportCallReturns
  \/ ParseStart
  \/ ParseLine
  \/ ParseReturn
  \/ BuildReport

SpecAnalysis == Init /\ [][NextAnalysis]_vars

(***************************************************************************)
(* analyze_document: the route /api/analyze, one thread per request.       *)
(* extract_information and generate_report are taken by their outcomes.    *)
(***************************************************************************)
\* secure_filename(file.filename) of the uploads
FileNames == {"summary.pdf", "plan.pdf"}

\* extracted_info.company_name or 'unknown'
Companies == {"unknown", "Acme"}

\* os.path.join(UPLOAD_FOLDER, f"{timestamp}_{filename}")
UploadPath(q) == <<q.timestamp, q.filename>>

\* f"reports/{timestamp}_{company}.{ext}"
ReportPath(q, ext) == <<q.timestamp, q.company, ext>>

\* writing a file creates it or replaces its content
Put(files, path, owner) ==
  [p \in DOMAIN files \cup {path} |->
     IF p = path THEN owner ELSE files[p]]

\* os.remove(path)
Remove(files, path) == [p \in DOMAIN files \ {path} |-> files[p]]

\* return jsonify({'error': error}), status
Respond(q, status, error) ==
  [q EXCEPT !.pos = "responded", !.status = status, !.error = error]

\* the early returns of lines 575-587
Reject(r) ==
  /\ req[r].pos = "new"
  /\ \E error \in {"No file provided", "No file selected",
                    "Invalid file type. Only PDF files are allowed."} :
       req' = [req EXCEPT ![r] = Respond(@, 400, error)]
  /\ UNCHANGED <<active, uploads, reports, clock>>
  /\ UNCHANGED <<extractVars, parseVars, reportVars, renderVars>>

\* lines 590-594
SaveUpload(r) ==
  /\ req[r].pos = "new"
  /\ \E name \in FileNames :
       LET q == [req[r] EXCEPT !.pos = "saved", !.filename = name,
                               !.timestamp = clock, !.saved = TRUE]
       IN  /\ req' = [req EXCEPT ![r] = q]
           /\ uploads' = Put(uploads, UploadPath(q), r)
  /\ UNCHANGED <<active, reports, clock>>
  /\ UNCHANGED <<extractVars, parseVars, reportVars, renderVars>>

\* lines 597-602 with PDFProcessor.extract_text
ExtractText(r) ==
  /\ req[r].pos = "saved"
  /\ IF UploadPath(req[r]) \notin DOMAIN uploads
       THEN req' = [req EXCEPT ![r] =
                      Respond(@, 500, "Unable to extract text from PDF")]
       ELSE \E outcome \in {"text", "empty", "unreadable"} :
              LET q == [req[r] EXCEPT
                          !.text_from = uploads[UploadPath(req[r])]]
              IN  req' = [req EXCEPT ![r] =
                            IF outcome = "text"
                              THEN [q EXCEPT !.pos = "text"]
                            ELSE Respond(q, IF outcome = "empty"
                                              THEN 400 ELSE 500,
                                         "Unable to extract text from PDF")]
  /\ UNCHANGED <<active, uploads, reports, clock>>
  /\ UNCHANGED <<extractVars, parseVars, reportVars, renderVars>>

\* lines 605-606: LLMAnalyzer() and extract_information return or raise
ExtractInformation(r) ==
  /\ req[r].pos = "text"
  /\ \/ \E error \in {"OpenAI API key not found", "AttributeError"} :
          req' = [req EXCEPT ![r] = Respond(@, 500, error)]
     \/ \E company \in Companies :
          req' = [req EXCEPT ![r] = [@ EXCEPT !.pos = "extracted",
                                              !.company = company]]
  /\ UNCHANGED <<active, uploads, reports, clock>>
  /\ UNCHANGED <<extractVars, parseVars, reportVars, renderVars>>

\* generate_report answers its failed LLM call with an empty Report
OnReportErrorFallback(q) ==
  [q EXCEPT !.pos = "reported", !.report_call = "raised"]

\* the LLM call of generate_report raises: lines 279-281, then 639-641
OnReportError(q) ==
  Respond([q EXCEPT !.report_call = "raised"], 500, "LLM call failed")

\* line 607
GenerateReport(r) ==
  /\ req[r].pos = "extracted"
  /\ \/ req' = [req EXCEPT ![r] = OnReportError(@)]
     \/ req' = [req EXCEPT ![r] = [@ EXCEPT !.pos = "reported",
                                            !.report_call = "returned"]]
  /\ UNCHANGED <<active, uploads, reports, clock>>
  /\ UNCHANGED <<extractVars, parseVars, reportVars, renderVars>>

\* lines 610-620
WriteHtml(r) ==
  /\ req[r].pos = "reported"
  /\ reports' = Put(reports, ReportPath(req[r], "html"), r)
  /\ req' = [req EXCEPT ![r] =
               [@ EXCEPT !.pos = "html_written",
                         !.wrote = @ \cup {ReportPath(req[r], "html")}]]
  /\ UNCHANGED <<active, uploads, clock>>
  /\ UNCHANGED <<extractVars, parseVars, reportVars, renderVars>>

\* lines 622-623
WriteMarkdown(r) ==
  /\ req[r].pos = "html_written"
  /\ reports' = Put(reports, ReportPath(req[r], "md"), r)
  /\ req' = [req EXCEPT ![r] =
               [@ EXCEPT !.pos = "md_written",
                         !.wrote = @ \cup {ReportPath(req[r], "md")}]]
  /\ UNCHANGED <<active, uploads, clock>>
  /\ UNCHANGED <<extractVars, parseVars, reportVars, renderVars>>

\* lines 626-637; os.remove raises when the file is gone
RemoveAndRespond(r) ==
  /\ req[r].pos = "md_written"
  /\ IF UploadPath(req[r]) \notin DOMAIN uploads
       THEN /\ req' = [req EXCEPT ![r] =
                           Respond(@, 500, "FileNotFoundError")]
            /\ UNCHANGED uploads
       ELSE /\ uploads' = Remove(uploads, UploadPath(req[r]))
            /\ req' = [req EXCEPT ![r] =
                         [Respond(@, 200, "") EXCEPT !.has_report = TRUE]]
  /\ UNCHANGED <<active, reports, clock>>
  /\ UNCHANGED <<extractVars, parseVars, reportVars, renderVars>>

\* a second passes
Tick ==
  /\ clock < MaxClock
  /\ clock' = clock + 1
  /\ UNCHANGED <<active, req, uploads, reports>>
  /\ UNCHANGED <<extractVars, parseVars, reportVars, renderVars>>

InitRequests(n) ==
  /\ active = 1..n
  /\ req = [r \in Reqs |-> NewRequest]
  /\ uploads = NoFiles
  /\ reports = NoFiles
  /\ clock = 0
  /\ ExtractIdle /\ ParseIdle /\ ReportIdle /\ RenderIdle

NextRequest ==
  \/ \E r \in active :
       \/ Reject(r)
       \/ SaveUpload(r)
       \/ ExtractText(r)
       \/ ExtractInformation(r)
       \/ GenerateReport(r)
       \/ WriteHtml(r)
       \/ WriteMarkdown(r)
       \/ RemoveAndRespond(r)
  \/ Tick

\* one request
SpecRequest == InitRequests(1) /\ [][NextRequest]_vars

\* two requests in two threads
SpecRequests == InitRequests(2) /\ [][NextRequest]_vars

(***************************************************************************)
(* ReportGenerator.generate_markdown: the table 'Extracted Information     *)
(* Summary' (lines 528-537), and a reader of that table.                   *)
(***************************************************************************)
UnknownCompany == <<"U","n","k","n","o","w","n"," ","C","o","m","p","a","n","y">>
NotSpecified == <<"N","o","t"," ","s","p","e","c","i","f","i","e","d">>

\* the rows of lines 532-537: label, field, and the text that
\* template.format gets for a falsy value (lines 541-556)
TableRows ==
  << [label |-> <<"C","o","m","p","a","n","y"," ","N","a","m","e">>,
      field |-> "company_name", placeholder |-> UnknownCompany],
     [label |-> <<"T","e","c","h","n","o","l","o","g","y"," ","T","y","p","e">>,
      field |-> "technology_type", placeholder |-> NotSpecified],
     [label |-> <<"N","e","e","d"," ","A","d","d","r","e","s","s","e","d">>,
      field |-> "need_addressed", placeholder |-> NotSpecified],
     [label |-> <<"M","a","r","k","e","t"," ","C","a","l","c","u","l","a","t","i","o","n">>,
      field |-> "market_calculation_method", placeholder |-> NotSpecified],
     [label |-> <<"C","u","r","r","e","n","t"," ","S","a","l","e","s">>,
      field |-> "current_sales", placeholder |-> NotSpecified],
     [label |-> <<"M","i","s","s","i","n","g"," ","S","k","i","l","l","s">>,
      field |-> "missing_skills", placeholder |-> NotSpecified] >>

Digit == <<"0","1","2","3","4","5","6","7","8","9">>

\* f"{confidence:.2f}" for a confidence of 0.0 to 9.9, given in tenths
FormatConfidence(tenths) ==
  <<Digit[(tenths \div 10) + 1], ".", Digit[(tenths % 10) + 1], "0">>

\* `value or placeholder` (lines 541-556)
OrPlaceholder(value, placeholder) ==
  IF Truthy(value) THEN value.s ELSE placeholder

\* one row of the table, as template.format fills it
RenderRow(row, inf) ==
  <<"|", " ">> \o row.label \o <<" ", "|", " ">>
    \o OrPlaceholder(inf.fields[row.field], row.placeholder)
    \o <<" ", "|", " ">>
    \o FormatConfidence(
         Get(inf.confidence_scores.m, row.field, Num(0)).n)
    \o <<" ", "|">>

\* the pieces of s between the occurrences of the character sep
SplitAt(s, sep) ==
  LET at == {i \in 1..Len(s) : s[i] = sep}
      cut(k) == IF k = 0 THEN 0
                ELSE IF k = Cardinality(at) + 1 THEN Len(s) + 1
                ELSE CHOOSE i \in at : Cardinality({j \in at : j < i}) = k - 1
  IN  [k \in 1..(Cardinality(at) + 1) |->
         SubSeq(s, cut(k - 1) + 1, cut(k) - 1)]

\* the value and the confidence a reader of a Markdown table finds in a
\* row: the second and third cell between the bars, without the padding
ReadRow(line) ==
  LET cells == SplitAt(line, "|")
  IN  [value |-> Strip(cells[3]), confidence |-> Strip(cells[4])]

\* the values an ExtractedInformation holds in a field
AcmeBar == <<"A","c","m","e","|","B","e","t","a">>
RenderValues ==
  {None, Str(<<>>), Str(Acme), Str(AcmeBar), Str(LinePadded)}

\* the ExtractedInformation objects given to generate_markdown:
\* company_name has value v1 and confidence c1, the other fields v2, c2
RenderInfo(v1, c1, v2, c2) ==
  [exc |-> "none",
   fields |-> [f \in Fields |-> IF f = "company_name" THEN v1 ELSE v2],
   confidence_scores |->
     Dict([f \in {g \in Fields : EntryOf(g, c1, c2).t # "absent"} |->
             EntryOf(f, c1, c2)])]

RenderInfos ==
  {RenderInfo(v1, c1, v2, c2) :
     v1 \in RenderValues, c1 \in {Absent, Num(0), Num(9)},
     v2 \in RenderValues, c2 \in {Absent, Num(5)}}

InitRender ==
  /\ info \in RenderInfos
  /\ pc = "render"
  /\ chunks = 0
  /\ idx = 0
  /\ all_extractions = <<>>
  /\ merged_info = Pending
  /\ markdown = <<>>
  /\ readback = <<>>
  /\ ParseIdle /\ ReportIdle /\ RequestIdle

\* generate_markdown writes the table: lines 532-537 and 540-563
GenerateMarkdown ==
  /\ pc = "render"
  /\ markdown' = [i \in 1..Len(TableRows) |-> RenderRow(TableRows[i], info)]
  /\ pc' = "rendered"
  /\ UNCHANGED <<chunks, idx, all_extractions, merged_info, info, readback>>
  /\ UNCHANGED <<parseVars, reportVars, requestVars>>

\* the table is read back
ReadBack ==
  /\ pc = "rendered"
  /\ readback' = [i \in 1..Len(markdown) |-> ReadRow(markdown[i])]
  /\ pc' = "read"
  /\ UNCHANGED <<chunks, idx, all_extractions, merged_info, info, markdown>>
  /\ UNCHANGED <<parseVars, reportVars, requestVars>>

NextRender == GenerateMarkdown \/ ReadBack

SpecRender == InitRender /\ [][NextRender]_vars

(***************************************************************************)
(* Vocabulary of the properties.                                           *)
(***************************************************************************)
\* the merge took the path for two or more results and returned
MergedSeveral == pc = "done" /\ Len(all_extractions) >= 2

Candidates == 1..Len(all_extractions)

\* result i's value for field f, None when it has none
ValueOf(i, f) == Get(all_extractions[i].m, f, None)

\* result i's confidence for field f as the merge reads it
ConfOf(i, f) ==
  IF all_extractions[i].cs.t = "absent" THEN DefaultConfidence
  ELSE Get(all_extractions[i].cs.m, f, Num(DefaultConfidence)).n

\* non-empty and free of 'not provided' in any letter case
EligibleText(chars) ==
  /\ chars # <<>>
  /\ ~Contains(NotProvidedKey, Lower(chars))

Eligible(i, f) == ValueOf(i, f).t = "str" /\ EligibleText(ValueOf(i, f).s)

EligibleSet(f) == {i \in Candidates : Eligible(i, f)}

\* the eligible candidates of field f with a confidence above zero
PositiveSet(f) == {i \in EligibleSet(f) : ConfOf(i, f) > 0}

\* the members of S with the highest confidence for field f
Top(S, f) == {i \in S : \A j \in S : ConfOf(j, f) <= ConfOf(i, f)}

Earliest(S) == CHOOSE i \in S : \A j \in S : i <= j

MergedValue(f) == merged_info.val.m[f]
MergedConf(f) == merged_info.val.cs.m[f].n

IsSentinel(f) == MergedValue(f) = Str(Sentinel) /\ MergedConf(f) = 0

\* C1 as stated: for two or more results, every field with an eligible
\* candidate takes the value and the confidence of an eligible candidate
\* of highest confidence.
C1_HighestEligibleWins ==
  MergedSeveral =>
    \A f \in Fields :
      EligibleSet(f) # {} =>
        \E i \in Top(EligibleSet(f), f) :
          /\ MergedValue(f) = ValueOf(i, f)
          /\ MergedConf(f) = ConfOf(i, f)

\* C1 amended: for two or more results, every field with an eligible
\* candidate of confidence above zero takes the value and the confidence
\* of such a candidate of highest confidence; a field without one is the
\* sentinel with confidence 0.
C1_HighestPositiveWins ==
  MergedSeveral =>
    \A f \in Fields :
      IF PositiveSet(f) # {}
        THEN \E i \in Top(PositiveSet(f), f) :
               /\ MergedValue(f) = ValueOf(i, f)
               /\ MergedConf(f) = ConfOf(i, f)
        ELSE IsSentinel(f)

\* C1 witness: company_name has confidence 0.3 in result A and 0.9 in
\* result B, and the merge of [A, B] gave B's value with 0.9.
C1_Witness ==
  /\ MergedSeveral
  /\ Len(all_extractions) = 2
  /\ ValueOf(1, "company_name") = Str(Acme)
  /\ ConfOf(1, "company_name") = 3
  /\ ValueOf(2, "company_name") = Str(Beta)
  /\ ConfOf(2, "company_name") = 9
  /\ MergedValue("company_name") = Str(Beta)
  /\ MergedConf("company_name") = 9

\* C2 as stated: for two or more results, when several eligible
\* candidates share the highest confidence, the merged value is the value
\* of the earliest of them.
C2_EarliestOfTiedWins ==
  MergedSeveral =>
    \A f \in Fields :
      Cardinality(Top(EligibleSet(f), f)) >= 2 =>
        MergedValue(f) = ValueOf(Earliest(Top(EligibleSet(f), f)), f)

\* C2 amended: for two or more results, when several eligible candidates
\* share the highest confidence and that confidence is above zero, the
\* merged value is the value of the earliest of them.
C2_EarliestOfPositiveTiedWins ==
  MergedSeveral =>
    \A f \in Fields :
      Cardinality(Top(PositiveSet(f), f)) >= 2 =>
        MergedValue(f) = ValueOf(Earliest(Top(PositiveSet(f), f)), f)

\* C2 witness: two results tie on company_name at 0.3 with different
\* values, a third has no eligible value, and the first value was kept.
C2_Witness ==
  /\ MergedSeveral
  /\ Len(all_extractions) = 3
  /\ ValueOf(1, "company_name") = Str(Acme)
  /\ ConfOf(1, "company_name") = 3
  /\ ValueOf(2, "company_name") = Str(Beta)
  /\ ConfOf(2, "company_name") = 3
  /\ ~Eligible(3, "company_name")
  /\ MergedValue("company_name") = Str(Acme)

\* C3: for two or more results, a merged value other than the sentinel
\* is the non-empty, 'not provided'-free value of some candidate, a
\* sentinel merged value has confidence 0, and a field with no accepted
\* candidate is the sentinel with confidence 0.
C3_IneligibleNeverChosen ==
  MergedSeveral =>
    \A f \in Fields :
      /\ MergedValue(f) # Str(Sentinel) =>
           /\ EligibleText(MergedValue(f).s)
           /\ \E i \in EligibleSet(f) : MergedValue(f) = ValueOf(i, f)
      /\ MergedValue(f) = Str(Sentinel) => MergedConf(f) = 0
      /\ PositiveSet(f) = {} => IsSentinel(f)

\* C3 witness: 'NOT Provided' with confidence 0.9 lost company_name to
\* an eligible value with confidence 0.3, and a field no result answers
\* became the sentinel with confidence 0.
C3_Witness ==
  /\ MergedSeveral
  /\ ValueOf(1, "company_name") = Str(ShoutedNotProvided)
  /\ ConfOf(1, "company_name") = 9
  /\ ValueOf(2, "company_name") = Str(Acme)
  /\ ConfOf(2, "company_name") = 3
  /\ MergedValue("company_name") = Str(Acme)
  /\ MergedConf("company_name") = 3
  /\ EligibleSet("market_size") = {}
  /\ IsSentinel("market_size")

\* extract_information has returned or raised
Finished == pc \in {"done", "raised"}

\* the confidence a reader of the ExtractedInformation gets for field f:
\* confidence_scores.get(f, 0)
InfoConf(f) == Get(info.confidence_scores.m, f, Num(0)).n

\* C4: with no extraction result, extract_information returns an
\* ExtractedInformation whose eleven fields are the sentinel and whose
\* confidences are 0.
C4_EmptyYieldsSentinels ==
  (Finished /\ Len(all_extractions) = 0) =>
    /\ pc = "done"
    /\ \A f \in Fields :
         info.fields[f] = Str(Sentinel) /\ InfoConf(f) = 0

\* C5: with exactly one extraction result r, every field r has keeps r's
\* value and every field r lacks is the sentinel.
C5_SinglePassesThrough ==
  (Finished /\ Len(all_extractions) = 1) =>
    /\ pc = "done"
    /\ \A f \in Fields :
         IF f \in DOMAIN all_extractions[1].m
           THEN info.fields[f] = all_extractions[1].m[f]
           ELSE info.fields[f] = Str(Sentinel)

\* C6: every ExtractedInformation that extract_information returns has a
\* string in each of the eleven fields.
C6_FieldsAlwaysStrings ==
  Finished =>
    /\ pc = "done"
    /\ \A f \in Fields : info.fields[f].t = "str"

\* C7: _merge_extractions raises no error, whatever JSON the answers
\* were.
C7_MergeNeverRaises == merged_info.exc \in {"pending", "none"}

\* the section of the first trigger, in the order nature and state,
\* market need, roi, management, that the lower-cased line contains
TriggerSection(line) ==
  IF Contains(KeyNature, Lower(line)) THEN "nature_and_state"
  ELSE IF Contains(KeyMarket, Lower(line)) THEN "market_need_and_size"
  ELSE IF Contains(KeyRoi, Lower(line)) THEN "roi_elements"
  ELSE IF Contains(KeyManagement, Lower(line))
    THEN "management_team_strength"
  ELSE "None"

HasTrigger(line) == TriggerSection(line) # "None"

IsBlank(line) == \A i \in 1..Len(line) : line[i] \in Whitespace

\* a non-blank line without a trigger
IsBody(line) == ~HasTrigger(line) /\ ~IsBlank(line)

\* the number of the nearest header line before line i, 0 when none
HeaderBefore(i) ==
  LET hs == {j \in 1..(i - 1) : HasTrigger(lines[j])}
  IN  IF hs = {} THEN 0 ELSE CHOOSE j \in hs : \A h \in hs : h <= j

\* the section open when line i is read
OpenAt(i) ==
  IF HeaderBefore(i) = 0 THEN "None"
  ELSE TriggerSection(lines[HeaderBefore(i)])

RECURSIVE BodyOf(_, _)
\* the body lines among the first k lines that follow a header of
\* section s, each with its newline, in input order
BodyOf(s, k) ==
  IF k = 0 THEN <<>>
  ELSE BodyOf(s, k - 1) \o
       (IF IsBody(lines[k]) /\ OpenAt(k) = s
          THEN lines[k] \o <<"\n">> ELSE <<>>)

\* the loop is about to read line line_no
Reading == ppc = "loop" /\ line_no <= Len(lines)

\* C8: reading a line with a trigger sets the current section to the
\* section of the first trigger in the fixed order and leaves the text of
\* every section as it was.
C8_FirstTriggerIsHeader ==
  [][(Reading /\ line_no' = line_no + 1 /\ HasTrigger(lines[line_no])) =>
       /\ current_section' = TriggerSection(lines[line_no])
       /\ sections' = sections]_vars

\* C8 witness: after the header 'ROI', the line 'Management of market
\* need', which has two triggers, selected market_need_and_size and no
\* section has text.
C8_Witness ==
  /\ ppc = "loop"
  /\ line_no = 3
  /\ lines[1] = LineRoi
  /\ lines[2] = LineMulti
  /\ current_section = "market_need_and_size"
  /\ \A s \in SectionKeys : sections[s] = <<>>

\* C9: each section holds, in input order, exactly the body lines whose
\* nearest preceding header selects it (stripped once the parser has
\* returned), so blank lines and lines before the first header are in no
\* section; the example text gives 'Growing fast', 'High return' and two
\* empty sections.
C9_BodyLinesFollowHeader ==
  /\ ppc = "loop" =>
       \A s \in SectionKeys : sections[s] = BodyOf(s, line_no - 1)
  /\ ppc = "returned" =>
       \A s \in SectionKeys : sections[s] = Strip(BodyOf(s, Len(lines)))
  /\ (ppc = "returned" /\ report_text = ExampleText) =>
       sections = [s \in SectionKeys |->
                     IF s = "nature_and_state" THEN LineGrowing
                     ELSE IF s = "roi_elements" THEN LineHigh
                     ELSE <<>>]

\* C9 witness: the parser returned for the example text with 'Growing
\* fast' and 'High return' in their sections.
C9_Witness ==
  /\ ppc = "returned"
  /\ report_text = ExampleText
  /\ Len(lines) = 6
  /\ sections["nature_and_state"] = LineGrowing
  /\ sections["roi_elements"] = LineHigh
  /\ sections["market_need_and_size"] = <<>>
  /\ sections["management_team_strength"] = <<>>

\* C10: a line with a trigger read while another section is open makes
\* the triggered section current, and every body line read after it, up
\* to the next header, is appended to the triggered section while the
\* previously open section stays as it was.
C10_BodyTriggerReassigns ==
  [][(Reading /\ line_no' = line_no + 1) =>
       LET line == lines[line_no]
           h == HeaderBefore(line_no)
       IN  /\ (HasTrigger(line)
                 /\ current_section \notin {"None", TriggerSection(line)})
               => current_section' = TriggerSection(line)
           /\ (IsBody(line) /\ h # 0
                 /\ OpenAt(h) \notin {"None", TriggerSection(lines[h])})
               => /\ sections'[TriggerSection(lines[h])] =
                       sections[TriggerSection(lines[h])]
                         \o line \o <<"\n">>
                  /\ sections'[OpenAt(h)] = sections[OpenAt(h)]]_vars

\* C10 witness: 'We need strong management going forward' came while
\* roi_elements was open; the line after it went to
\* management_team_strength and roi_elements kept only the line before.
C10_Witness ==
  /\ ppc = "returned"
  /\ lines = <<LineRoi, LineHigh, LineQuirk, LinePadded>>
  /\ current_section = "management_team_strength"
  /\ sections["roi_elements"] = LineHigh
  /\ sections["management_team_strength"] = Strip(LinePadded)
  /\ sections["management_team_strength"] # <<>>

\* no line of the report text has a trigger
NoTriggers == \A i \in 1..Len(lines) : ~HasTrigger(lines[i])

\* C11: while and after parsing a report text none of whose lines has a
\* trigger, the four sections are empty; so are they for the empty text.
C11_NoTriggerAllEmpty ==
  /\ (ppc \in {"loop", "returned"} /\ NoTriggers) =>
       \A s \in SectionKeys : sections[s] = <<>>
  /\ (ppc = "returned" /\ report_text = <<>>) =>
       sections = [s \in SectionKeys |-> <<>>]

\* C11 witness: the parser returned four empty sections for a text of
\* two non-blank lines without a trigger.
C11_Witness ==
  /\ ppc = "returned"
  /\ lines = <<LineHigh, LinePadded>>
  /\ NoTriggers
  /\ \A s \in SectionKeys : sections[s] = <<>>

Responded(r) == req[r].pos = "responded"

\* C12: a request whose report-generation LLM call raised answers with
\* an error, returns no Report and has written no report file.
C12_ReportFailurePropagates ==
  \A r \in active :
    req[r].report_call = "raised" =>
      /\ Responded(r)
      /\ req[r].status = 500
      /\ ~req[r].has_report
      /\ req[r].wrote = {}
      /\ \A p \in DOMAIN reports : reports[p] # r

\* C12 witness: a request saved its upload, extracted, and its
\* report-generation call raised; it answered 500 and no report file
\* exists.
C12_Witness ==
  /\ req[1].saved
  /\ req[1].company = "Acme"
  /\ req[1].report_call = "raised"
  /\ Responded(1)
  /\ req[1].status = 500
  /\ reports = NoFiles

\* the analysis has ended with an exception
AnalysisFailed == pc \in {"raised", "report_raised"}

\* the report-generation LLM call was made and raised
ReportCallRaised ==
  /\ llm_calls # <<>>
  /\ llm_calls[Len(llm_calls)] = ReportCall("raised")

\* C13: an analysis ends with an exception only if its report-generation
\* LLM call raised.
C13_FailsOnlyOnReportCall == AnalysisFailed => ReportCallRaised

\* C14: once a request that saved an upload has answered, with success
\* or with an error, the upload is no longer in the upload folder.
C14_UploadRemovedAfterResponse ==
  \A r \in active :
    (Responded(r) /\ req[r].saved) =>
      UploadPath(req[r]) \notin DOMAIN uploads

\* C15: each request reads the upload it saved itself, the report files
\* a successful request returns hold its own report, and no step of one
\* request replaces or removes a file that holds the other's data.
C15_RequestsShareNothing ==
  [][\A r \in active :
       /\ req'[r].text_from \in {0, r}
       /\ (Responded(r)' /\ req'[r].status = 200) =>
            /\ reports'[ReportPath(req'[r], "html")] = r
            /\ reports'[ReportPath(req'[r], "md")] = r
       /\ req'[r] # req[r] =>
            /\ \A p \in DOMAIN uploads :
                 uploads[p] # r =>
                   p \in DOMAIN uploads' /\ uploads'[p] = uploads[p]
            /\ \A p \in DOMAIN reports :
                 reports[p] # r =>
                   p \in DOMAIN reports' /\ reports'[p] = reports[p]]_vars


\* C16: the values and confidences read back from the table that
\* generate_markdown wrote are the field values of the
\* ExtractedInformation it was given and its confidences written with two
\* decimals.
C16_TableRoundTrip ==
  pc = "read" =>
    \A i \in 1..Len(TableRows) :
      LET f == TableRows[i].field
      IN  /\ Str(readback[i].value) = info.fields[f]
          /\ readback[i].confidence =
               FormatConfidence(
                 Get(info.confidence_scores.m, f, Num(0)).n)


\* result i has no confidence for field f: no confidence map, or a map
\* without an entry for f
MissingConf(i, f) ==
  \/ all_extractions[i].cs.t = "absent"
  \/ f \notin DOMAIN all_extractions[i].cs.m

\* result i's confidence for field f when a missing one counts as 0.0
ConfAsZero(i, f) == IF MissingConf(i, f) THEN 0 ELSE ConfOf(i, f)

\* the eligible candidates of f that lack a confidence
MissingSet(f) == {i \in EligibleSet(f) : MissingConf(i, f)}

\* the merge of two or more results has returned or raised
MergeOfSeveralOver ==
  merged_info # Pending /\ Len(all_extractions) >= 2

ExtractCalls == {i \in 1..Len(llm_calls) : llm_calls[i].kind = "extract"}
ReportCalls == {i \in 1..Len(llm_calls) : llm_calls[i].kind = "report"}

\* C18: at most 3 extraction calls are made, the k-th of them for chunk k
\* of the document and none for a chunk past the third; at most one
\* report-generation call is made, after an extraction call has been made
\* for each of the first 3 chunks and the merge of their results has
\* returned.
C18_CallsBoundedAndOrdered ==
  /\ Cardinality(ExtractCalls) <= 3
  /\ Cardinality(ExtractCalls) <= chunks
  /\ ExtractCalls = 1..Cardinality(ExtractCalls)
  /\ \A i \in ExtractCalls : llm_calls[i].chunk = i
  /\ Cardinality(ReportCalls) <= 1
  /\ ReportCalls # {} =>
       /\ Cardinality(ExtractCalls) = Min(chunks, 3)
       /\ ReportCalls = {Len(llm_calls)}
       /\ merged_info = MergeExtractions(all_extractions)
       /\ merged_info.exc = "none"
  /\ merged_info # Pending => Cardinality(ExtractCalls) = Min(chunks, 3)

\* C18 witness: a document of 4 chunks got extraction calls for chunks 1,
\* 2 and 3, one of which failed, then the report-generation call, and the
\* report was built.
C18_Witness ==
  /\ chunks = 4
  /\ pc = "reported"
  /\ Len(llm_calls) = 4
  /\ ExtractCalls = {1, 2, 3}
  /\ llm_calls[2].outcome = "raised"
  /\ ReportCalls = {4}


\* the calls of the log that returned a response that parses as JSON
Succeeded(call) == call.outcome = "json"

\* the results of the successful chunks, in chunk order
SuccessfulResults ==
  LET good == SelectSeq(llm_calls, Succeeded)
  IN  [i \in 1..Len(good) |-> good[i].answer]

\* C19: every chunk processed so far got exactly one call, a chunk whose
\* call raised or whose response is not JSON has no result, the loop goes
\* on to the next chunk after it, and the merge is made once the first 3
\* chunks are through, of the results of the successful chunks in chunk
\* order.
C19_FailedChunkDropped ==
  /\ Len(llm_calls) = idx
  /\ \A i \in 1..idx : llm_calls[i].chunk = i
  /\ all_extractions = SuccessfulResults
  /\ idx < Min(chunks, 3) => pc = "extract" /\ merged_info = Pending
  /\ merged_info # Pending =>
       /\ idx = Min(chunks, 3)
       /\ merged_info = MergeExtractions(SuccessfulResults)

\* C19 witness: of three chunks the first call raised, the second gave a
\* result and the third gave text that is not JSON; the merger got the
\* second chunk's result alone and extract_information returned.
C19_Witness ==
  /\ chunks = 3
  /\ pc = "done"
  /\ Len(llm_calls) = 3
  /\ llm_calls[1].outcome = "raised"
  /\ llm_calls[2].outcome = "json"
  /\ llm_calls[3].outcome = "not_json"
  /\ all_extractions = <<llm_calls[2].answer>>
  /\ merged_info.val = llm_calls[2].answer


\* what result e says about field f and nothing else: its value for f
\* and its confidence for f (a result that is not an object, or whose
\* 'confidence_scores' is not one, has no fields to strip)
ProjectResult(e, f) ==
  IF e.t # "dict" THEN e
  ELSE Result([g \in DOMAIN e.m \cap {f} |-> e.m[g]],
              IF e.cs.t # "dict" THEN e.cs
              ELSE Dict([g \in DOMAIN e.cs.m \cap {f} |-> e.cs.m[g]]))

Project(extractions, f) ==
  [i \in 1..Len(extractions) |-> ProjectResult(extractions[i], f)]

\* what the merge of `extractions` gives for field f
FieldOutcome(extractions, f) ==
  LET merged == MergeExtractions(extractions)
  IN  IF merged.exc # "none" THEN [exc |-> merged.exc]
      ELSE [exc |-> "none",
            value |-> Get(merged.val.m, f, None),
            confidence |->
              IF merged.val.cs.t = "dict"
                THEN Get(merged.val.cs.m, f, None) ELSE None]

\* C20: what a merge of two or more results gives for a field is decided
\* by the values and confidences the results have for that field: it is
\* what the merge gives for the same results stripped of every other
\* field, so two sequences of results that agree on the field get the
\* same merged value and confidence for it.
C20_FieldsIndependent ==
  MergeOfSeveralOver =>
    \A f \in Fields :
      FieldOutcome(all_extractions, f) =
        FieldOutcome(Project(all_extractions, f), f)


\* C21: in the merge of two or more results, a field is the sentinel
\* exactly when its merged confidence is 0, and a field that is not the
\* sentinel has the value and the confidence of an eligible candidate
\* whose confidence is above 0: no candidate of confidence 0 or below is
\* selected.
C21_SentinelIffZero ==
  MergedSeveral =>
    \A f \in Fields :
      /\ MergedValue(f) = Str(Sentinel) <=> MergedConf(f) = 0
      /\ MergedValue(f) # Str(Sentinel) =>
           /\ MergedConf(f) > 0
           /\ \E i \in EligibleSet(f) :
                /\ ValueOf(i, f) = MergedValue(f)
                /\ ConfOf(i, f) = MergedConf(f)

\* C21 witness: company_name has confidence -1 in the first result and
\* 0.3 in the second, and the second was taken with 0.3; the candidates
\* of market_size all have confidence -1, and it became the sentinel with
\* confidence 0.
C21_Witness ==
  /\ MergedSeveral
  /\ Len(all_extractions) = 2
  /\ ValueOf(1, "company_name") = Str(Acme)
  /\ ConfOf(1, "company_name") = -1
  /\ ValueOf(2, "company_name") = Str(Beta)
  /\ ConfOf(2, "company_name") = 3
  /\ MergedValue("company_name") = Str(Beta)
  /\ MergedConf("company_name") = 3
  /\ EligibleSet("market_size") = {1, 2}
  /\ \A i \in EligibleSet("market_size") : ConfOf(i, "market_size") = -1
  /\ IsSentinel("market_size")

\* the orders in which n results can be given
Orders(n) ==
  {p \in [1..n -> 1..n] : \A i, j \in 1..n : p[i] = p[j] => i = j}

\* the results in the order p
Reordered(extractions, p) ==
  [i \in 1..Len(extractions) |-> extractions[p[i]]]

\* the eligible candidates of field f have pairwise distinct confidences
DistinctConfidences(f) ==
  \A i, j \in EligibleSet(f) : ConfOf(i, f) = ConfOf(j, f) => i = j

\* C22: in the merge of two or more results, a field whose eligible
\* candidates have pairwise distinct confidences gets the same merged
\* value and confidence in whatever order the results are given.
C22_OrderMattersOnlyForTies ==
  MergedSeveral =>
    \A p \in Orders(Len(all_extractions)) :
      LET other == MergeExtractions(Reordered(all_extractions, p))
      IN  /\ other.exc = "none"
          /\ \A f \in Fields :
               DistinctConfidences(f) =>
                 /\ other.val.m[f] = MergedValue(f)
                 /\ other.val.cs.m[f].n = MergedConf(f)

\* C22 witness: three results give company_name with confidences 0.3,
\* 0.9 and none (read as 0.5), the one of 0.9 in the middle, and the
\* merge took it.
C22_Witness ==
  /\ MergedSeveral
  /\ Len(all_extractions) = 3
  /\ EligibleSet("company_name") = {1, 2, 3}
  /\ ConfOf(1, "company_name") = 3
  /\ ConfOf(2, "company_name") = 9
  /\ MissingConf(3, "company_name")
  /\ ValueOf(1, "company_name") = Str(Acme)
  /\ ValueOf(2, "company_name") = Str(Beta)
  /\ ValueOf(3, "company_name") = Str(Acme)
  /\ MergedValue("company_name") = Str(Beta)
  /\ MergedConf("company_name") = 9


\* what extract_information returns when the loop collected r alone:
\* lines 177-192 for all_extractions = [r]
OutcomeForSingle(r) == BuildInfo(MergeExtractions(<<r>>).val)

\* C23: when the loop collected the same result r twice,
\* extract_information returns the eleven field values and the per-field
\* confidences it returns when the loop collected r once.
C23_PathsAgree ==
  (pc = "done" /\ Len(all_extractions) = 2
     /\ all_extractions[1] = all_extractions[2]) =>
    \A f \in Fields :
      /\ info.fields[f] = OutcomeForSingle(all_extractions[1]).fields[f]
      /\ InfoConf(f) =
           Get(OutcomeForSingle(all_extractions[1]).confidence_scores.m,
               f, Num(0)).n

====
